---- MODULE Spec2Model ----
(***************************************************************************)
(* A model of lib/urlwatch/jobs.py: the job classes (shell, url, browser), *)
(* their construction, serialization and kind auto-detection, the GUID,    *)
(* UrlJob.retrieve with its job_state side channel, and the BrowserJob     *)
(* setup/retrieve/cleanup lifecycle around the shared browser.             *)
(***************************************************************************)
EXTENDS Integers, Sequences, FiniteSets, TLC

(***************************************************************************)
(* Bounds of the model.                                                    *)
(***************************************************************************)
\* largest number of keys in a keyword map or job record drawn as an input
MaxKeys == 2
\* largest number of optional keys a url job is built with
MaxOptions == 2
\* number of browser jobs in a batch
MaxJobs == 2
\* largest number of browser launches followed
MaxLaunches == 2
\* largest number of browsing contexts followed
MaxContexts == 2

(***************************************************************************)
(* Python values.  A value is a tagged record, so that None, strings,      *)
(* booleans and dicts can be told apart whatever they hold.                *)
(***************************************************************************)
None == [t |-> "None"]
Str(s) == [t |-> "str", v |-> s]
Bool(b) == [t |-> "bool", v |-> b]
Dict(f) == [t |-> "dict", v |-> f]

\* Python truthiness, as used by `if x:` / `if not x:`
Truthy(x) ==
    CASE x.t = "None" -> FALSE
      [] x.t = "str"  -> x.v # ""
      [] x.t = "bool" -> x.v
      [] x.t = "dict" -> DOMAIN x.v # {}
      [] OTHER        -> TRUE

Range(s) == {s[i] : i \in DOMAIN s}

EmptyMap == [k \in {} |-> None]

\* d restricted to the keys in S
Restrict(d, S) == [k \in (DOMAIN d) \cap S |-> d[k]]

\* dict.update: the entries of e win over those of d
Update(d, e) == [k \in (DOMAIN d) \cup (DOMAIN e) |-> IF k \in DOMAIN e THEN e[k] ELSE d[k]]

\* outcomes of a call: a returned value or a raised exception
Return(v) == [tag |-> "return", val |-> v]
Raise(exc, msg, arg) == [tag |-> "raise", exc |-> exc, msg |-> msg, arg |-> arg]

(***************************************************************************)
(* The job classes.  A class is described by its kind tag, the class that  *)
(* implements its methods, and its required and optional keys; the keys a  *)
(* class declares are followed by those it inherits.                       *)
(***************************************************************************)
JobBase_required == <<>>
JobBase_optional == <<>>

Job_required == <<>> \o JobBase_required
Job_optional == <<"name", "filter", "max_tries", "diff_tool">> \o JobBase_optional

AsyncJob_required == Job_required
AsyncJob_optional == Job_optional

\* a shell kind that requires the key the url kind requires
ShellJob_requiring_url ==
    [kind |-> "shell", impl |-> "ShellJob",
     required |-> <<"url">> \o Job_required,
     optional |-> <<>> \o Job_optional]

ShellJob ==
    [kind |-> "shell", impl |-> "ShellJob",
     required |-> <<"command">> \o Job_required,
     optional |-> <<>> \o Job_optional]

UrlJob_own_optional ==
    <<"cookies", "data", "method", "ssl_no_verify", "ignore_cached", "http_proxy",
      "https_proxy", "headers", "ignore_connection_errors">>

UrlJob ==
    [kind |-> "url", impl |-> "UrlJob",
     required |-> <<"url">> \o Job_required,
     optional |-> UrlJob_own_optional \o Job_optional]

BrowserJob ==
    [kind |-> "browser", impl |-> "BrowserJob",
     required |-> <<"navigate">> \o AsyncJob_required,
     optional |-> AsyncJob_optional]

\* JobBase.__subclasses__ once this module is imported
ModuleSubclasses ==
    [k \in {"shell", "url", "browser"} |->
        CASE k = "shell" -> ShellJob
          [] k = "url" -> UrlJob
          [] k = "browser" -> BrowserJob]

\* the keys a class declares, required or optional
Declared(cls) == Range(cls.required) \cup Range(cls.optional)

\* A job class declared outside this module (a hooks file): a subclass of
\* UrlJob with a kind of its own and no key of its own.
HookUrlJob ==
    [kind |-> "hookurl", impl |-> "UrlJob",
     required |-> <<>> \o UrlJob.required,
     optional |-> <<>> \o UrlJob.optional]

HookClasses == {HookUrlJob}

\* TrackSubClasses: declaring a class with a kind records it under its tag
register(subclasses, cls) ==
    [k \in (DOMAIN subclasses) \cup {cls.kind} |->
        IF k = cls.kind THEN cls ELSE subclasses[k]]

(***************************************************************************)
(* JobBase: construction and serialization.  A job object is its class and *)
(* its attributes.                                                         *)
(***************************************************************************)
NoJob == [class |-> [kind |-> "", impl |-> "", required |-> <<>>, optional |-> <<>>],
          attrs |-> EmptyMap]

\* the first required key, in declaration order, that kwargs lacks (0: none)
FirstMissing(cls, kwargs) ==
    LET missing == {i \in DOMAIN cls.required : cls.required[i] \notin DOMAIN kwargs}
    IN IF missing = {} THEN 0 ELSE CHOOSE i \in missing : \A j \in missing : i <= j

\* __init__ without the check of the required keys
JobBase_init_unchecked(cls, kwargs) ==
    LET defaults == [k \in Range(cls.optional) \ DOMAIN kwargs |-> None]
    IN Return([class |-> cls, attrs |-> Update(defaults, kwargs)])

\* JobBase.__init__(**kwargs)
JobBase_init(cls, kwargs) ==
    LET defaults == [k \in Range(cls.optional) \ DOMAIN kwargs |-> None]
        m == FirstMissing(cls, kwargs)
    IN IF m # 0
       THEN Raise("ValueError", "Required field missing", cls.required[m])
       ELSE Return([class |-> cls, attrs |-> Update(defaults, kwargs)])

\* AsyncJob.__init__(**kwargs): the event loop starts unset
AsyncJob_init(cls, kwargs) ==
    LET r == JobBase_init(cls, kwargs)
    IN IF r.tag = "raise" THEN r
       ELSE Return([r.val EXCEPT !.attrs = Update(r.val.attrs, [k \in {"loop"} |-> None])])

\* cls(**kwargs)
New(cls, kwargs) ==
    IF cls.impl = "BrowserJob" THEN AsyncJob_init(cls, kwargs) ELSE JobBase_init(cls, kwargs)

\* to_dict testing `if getattr(self, k)` in place of `is not None`
to_dict_truthy(job) ==
    LET keys == {k \in Declared(job.class) : Truthy(job.attrs[k])}
    IN [k \in keys |-> job.attrs[k]]

\* JobBase.to_dict
to_dict(job) ==
    LET keys == {k \in Declared(job.class) : job.attrs[k] # None}
    IN [k \in keys |-> job.attrs[k]]

\* JobBase.serialize
serialize(job) ==
    Update([k \in {"kind"} |-> Str(job.class.kind)], to_dict(job))

\* JobBase.from_dict
from_dict(cls, data) == New(cls, Restrict(data, Declared(cls)))

\* auto-detection that only looks for the required keys
MatchingKinds_required_only(subclasses, data) ==
    {k \in DOMAIN subclasses :
        \A r \in Range(subclasses[k].required) : r \in DOMAIN data}

\* the kinds auto-detection keeps for a record
MatchingKinds(subclasses, data) ==
    {k \in DOMAIN subclasses :
        /\ \A r \in Range(subclasses[k].required) : r \in DOMAIN data
        /\ ~ \E key \in DOMAIN data :
               /\ key \notin Range(subclasses[k].required)
               /\ key \notin Range(subclasses[k].optional)}

\* unserialize that auto-detects the kind even when the record names one
unserialize_detect(subclasses, data) ==
    LET kinds == MatchingKinds(subclasses, Restrict(data, DOMAIN data \ {"kind"}))
    IN IF Cardinality(kinds) = 1
       THEN from_dict(subclasses[CHOOSE k \in kinds : TRUE], data)
       ELSE IF Cardinality(kinds) = 0
            THEN Raise("ValueError", "Kind is not specified, and no job matches", {})
            ELSE Raise("ValueError", "Multiple kinds of jobs match", kinds)

\* JobBase.unserialize
unserialize(subclasses, data) ==
    IF "kind" \notin DOMAIN data
    THEN LET kinds == MatchingKinds(subclasses, data)
         IN IF Cardinality(kinds) = 1
            THEN from_dict(subclasses[CHOOSE k \in kinds : TRUE], data)
            ELSE IF Cardinality(kinds) = 0
                 THEN Raise("ValueError", "Kind is not specified, and no job matches", {})
                 ELSE Raise("ValueError", "Multiple kinds of jobs match", kinds)
    ELSE LET kind == data["kind"]
         IN IF kind.t = "str" /\ kind.v \in DOMAIN subclasses
            THEN from_dict(subclasses[kind.v], data)
            ELSE Raise("KeyError", "kind", kind)

(***************************************************************************)
(* Strings.  TLC's strings are atomic, so the characters of every string   *)
(* whose characters the program looks at are tabulated here, as Unicode    *)
(* code points.                                                            *)
(***************************************************************************)
Chars(s) ==
    CASE s = "" -> <<>>
      [] s = "a" -> <<97>>
      [] s = "b" -> <<98>>
      [] s = "abc" -> <<97, 98, 99>>
      [] s = "http://a/" -> <<104, 116, 116, 112, 58, 47, 47, 97, 47>>
      [] s = "file:///a" -> <<102, 105, 108, 101, 58, 47, 47, 47, 97>>
      [] s = "file://" -> <<102, 105, 108, 101, 58, 47, 47>>
      [] s = "http://" -> <<104, 116, 116, 112, 58, 47, 47>>
      [] s = "https://" -> <<104, 116, 116, 112, 115, 58, 47, 47>>
      [] s = "User-agent" -> <<85, 115, 101, 114, 45, 97, 103, 101, 110, 116>>
      [] s = "If-None-Match" -> <<73, 102, 45, 78, 111, 110, 101, 45, 77, 97, 116, 99, 104>>
      [] s = "If-Modified-Since" ->
           <<73, 102, 45, 77, 111, 100, 105, 102, 105, 101, 100, 45, 83, 105, 110, 99, 101>>
      [] s = "Cache-Control" -> <<67, 97, 99, 104, 101, 45, 67, 111, 110, 116, 114, 111, 108>>
      [] s = "Expires" -> <<69, 120, 112, 105, 114, 101, 115>>
      [] s = "Content-type" -> <<67, 111, 110, 116, 101, 110, 116, 45, 116, 121, 112, 101>>
      [] s = "USER-AGENT" -> <<85, 83, 69, 82, 45, 65, 71, 69, 78, 84>>
      [] s = "content-type" -> <<99, 111, 110, 116, 101, 110, 116, 45, 116, 121, 112, 101>>
      [] s = "X-Token" -> <<88, 45, 84, 111, 107, 101, 110>>
      [] s = "if-none-match" -> <<105, 102, 45, 110, 111, 110, 101, 45, 109, 97, 116, 99, 104>>
      [] s = "expires" -> <<101, 120, 112, 105, 114, 101, 115>>
      [] s = "CACHE-CONTROL" -> <<67, 65, 67, 72, 69, 45, 67, 79, 78, 84, 82, 79, 76>>

\* str.encode('utf-8') of a sequence of code points
RECURSIVE encode_utf8(_)
encode_utf8(cs) ==
    IF cs = <<>> THEN <<>>
    ELSE LET c == Head(cs)
             bytes ==
                 IF c < 128 THEN <<c>>
                 ELSE IF c < 2048 THEN <<192 + (c \div 64), 128 + (c % 64)>>
                 ELSE IF c < 65536
                      THEN <<224 + (c \div 4096), 128 + ((c \div 64) % 64), 128 + (c % 64)>>
                      ELSE <<240 + (c \div 262144), 128 + ((c \div 4096) % 64),
                             128 + ((c \div 64) % 64), 128 + (c % 64)>>
         IN bytes \o encode_utf8(Tail(cs))

(***************************************************************************)
(* SHA-1 (hashlib.new('sha1')), on 32-bit words held as sequences of 32    *)
(* bits, most significant first.                                           *)
(***************************************************************************)
\* the n-bit big-endian representation of x
Bits(x, n) == SubSeq([i \in 1..n |-> (x \div (2 ^ (n - i))) % 2], 1, n)

\* the number held in the 16 bits of w after bit o
Half(w, o) ==
    32768 * w[o + 1] + (16384 * w[o + 2] + (8192 * w[o + 3] + (4096 * w[o + 4]
    + (2048 * w[o + 5] + (1024 * w[o + 6] + (512 * w[o + 7] + (256 * w[o + 8]
    + (128 * w[o + 9] + (64 * w[o + 10] + (32 * w[o + 11] + (16 * w[o + 12]
    + (8 * w[o + 13] + (4 * w[o + 14] + (2 * w[o + 15] + w[o + 16]))))))))))))))

Word(hi16, lo16) == Bits(hi16, 16) \o Bits(lo16, 16)

\* (SubSeq makes TLC hold each word as an evaluated tuple)
WXor(a, b) == SubSeq([i \in 1..32 |-> (a[i] + b[i]) % 2], 1, 32)
WAnd(a, b) == SubSeq([i \in 1..32 |-> a[i] * b[i]], 1, 32)
WOr(a, b) == SubSeq([i \in 1..32 |-> IF a[i] + b[i] > 0 THEN 1 ELSE 0], 1, 32)
WNot(a) == SubSeq([i \in 1..32 |-> 1 - a[i]], 1, 32)
Rotl(a, n) == SubSeq([i \in 1..32 |-> a[((i - 1 + n) % 32) + 1]], 1, 32)

\* addition modulo 2^32
WAdd(a, b) ==
    LET lo == Half(a, 16) + Half(b, 16)
        hi == Half(a, 0) + Half(b, 0) + (lo \div 65536)
    IN Word(hi % 65536, lo % 65536)

\* message padding: 0x80, zeros up to 56 mod 64, the bit length on 64 bits
Sha1Pad(msg) ==
    LET len == Len(msg)
        zeros == (119 - (len % 64)) % 64
        bitlen == 8 * len
    IN msg \o <<128>> \o [i \in 1..zeros |-> 0] \o <<0, 0, 0, 0>>
           \o <<(bitlen \div 16777216) % 256, (bitlen \div 65536) % 256,
                (bitlen \div 256) % 256, bitlen % 256>>

\* the 16 words of block number b (from 0) of the padded message
Sha1Block(padded, b) ==
    [t \in 1..16 |->
        Bits(padded[64 * b + 4 * (t - 1) + 1], 8) \o Bits(padded[64 * b + 4 * (t - 1) + 2], 8)
        \o Bits(padded[64 * b + 4 * (t - 1) + 3], 8) \o Bits(padded[64 * b + 4 * (t - 1) + 4], 8)]

RECURSIVE Sha1Schedule(_, _)
\* the message schedule: the words w extended to n words, in order (split in
\* halves, which keeps the evaluation shallow)
Sha1Schedule(w, n) ==
    LET t == Len(w) + 1
    IN IF t > n THEN w
       ELSE IF t = n
            THEN Append(w, Rotl(WXor(WXor(w[t - 3], w[t - 8]), WXor(w[t - 14], w[t - 16])), 1))
            ELSE Sha1Schedule(Sha1Schedule(w, (t + n) \div 2), n)

Sha1F(t, b, c, d) ==
    IF t <= 20 THEN WOr(WAnd(b, c), WAnd(WNot(b), d))
    ELSE IF t <= 40 THEN WXor(WXor(b, c), d)
    ELSE IF t <= 60 THEN WOr(WOr(WAnd(b, c), WAnd(b, d)), WAnd(c, d))
    ELSE WXor(WXor(b, c), d)

Sha1K(t) ==
    IF t <= 20 THEN Word(23170, 31129)
    ELSE IF t <= 40 THEN Word(28377, 60321)
    ELSE IF t <= 60 THEN Word(36635, 48348)
    ELSE Word(51810, 49622)

\* round t on the working variables s = <<a, b, c, d, e>>
\* (the Len tests make TLC evaluate the sums one after the other)
Sha1Round(s, w, t) ==
    LET f == Sha1F(t, s[2], s[3], s[4])
        t1 == WAdd(Rotl(s[1], 5), f)
        t2 == WAdd(t1, s[5])
        t3 == WAdd(t2, Sha1K(t))
        temp == WAdd(t3, w[t])
    IN IF Len(f) = 32 /\ Len(t1) = 32 /\ Len(t2) = 32 /\ Len(t3) = 32
       THEN <<temp, s[1], Rotl(s[2], 30), s[3], s[4]>>
       ELSE s

RECURSIVE Sha1Rounds(_, _, _, _)
\* rounds lo..hi in order (split in halves, which keeps the evaluation shallow)
Sha1Rounds(s, w, lo, hi) ==
    IF lo = hi THEN Sha1Round(s, w, lo)
    ELSE LET mid == (lo + hi) \div 2
             half == Sha1Rounds(s, w, lo, mid)
         IN IF Len(half) = 5 THEN Sha1Rounds(half, w, mid + 1, hi) ELSE half

Sha1Init ==
    <<Word(26437, 8961), Word(61389, 43913), Word(39098, 56574), Word(4146, 21622),
      Word(50130, 57840)>>

RECURSIVE Sha1Blocks(_, _, _)
\* the chaining value after blocks b.. of the padded message
Sha1Blocks(h, padded, b) ==
    IF 64 * b >= Len(padded) \/ Len(h) # 5 THEN h
    ELSE LET w == Sha1Schedule(Sha1Block(padded, b), 80)
             s == Sha1Rounds(h, w, 1, 80)
             next == [i \in 1..5 |-> WAdd(h[i], s[i])]
         IN IF Len(w) = 80 /\ Len(s) = 5 THEN Sha1Blocks(next, padded, b + 1) ELSE h

HexDigit(n) ==
    CASE n = 0 -> "0" [] n = 1 -> "1" [] n = 2 -> "2" [] n = 3 -> "3"
      [] n = 4 -> "4" [] n = 5 -> "5" [] n = 6 -> "6" [] n = 7 -> "7"
      [] n = 8 -> "8" [] n = 9 -> "9" [] n = 10 -> "a" [] n = 11 -> "b"
      [] n = 12 -> "c" [] n = 13 -> "d" [] n = 14 -> "e" [] n = 15 -> "f"

RECURSIVE HexOf(_, _)
\* the hexadecimal digits of the bits of w from bit i on
HexOf(w, i) ==
    IF i > Len(w) THEN ""
    ELSE HexDigit(8 * w[i] + 4 * w[i + 1] + 2 * w[i + 2] + w[i + 3]) \o HexOf(w, i + 4)

\* hashlib.new('sha1').update(bytes).hexdigest()
sha1_hexdigest(bytes) ==
    LET h == Sha1Blocks(Sha1Init, Sha1Pad(bytes), 0)
    IN HexOf(h[1] \o h[2] \o h[3] \o h[4] \o h[5], 1)

(***************************************************************************)
(* Identity: location and GUID.                                            *)
(***************************************************************************)
\* ShellJob.get_location / UrlJob.get_location / BrowserJob.get_location
get_location(job) ==
    CASE job.class.impl = "ShellJob" -> job.attrs["command"]
      [] job.class.impl = "UrlJob" -> job.attrs["url"]
      [] job.class.impl = "BrowserJob" -> job.attrs["navigate"]

\* the strings field values are drawn from
FieldStrings == {"", "a"}

\* the strings the location of a second job is drawn from
PeerStrings == FieldStrings \cup {"b", "abc", "http://a/", "file:///a"}

\* the SHA-1 hex digest of the UTF-8 encoding of each string a location can be
Sha1Hex == [s \in PeerStrings |-> sha1_hexdigest(encode_utf8(Chars(s)))]

\* Job.pretty_name
pretty_name(job) ==
    IF Truthy(job.attrs["name"]) THEN job.attrs["name"] ELSE get_location(job)

\* get_guid hashing the pretty name in place of the location
get_guid_pretty(job) ==
    LET location == pretty_name(job)
    IN IF location.t # "str"
       THEN Raise("AttributeError", "encode", location)
       ELSE Return(Str(Sha1Hex[location.v]))

\* JobBase.get_guid
get_guid(job) ==
    LET location == get_location(job)
    IN IF location.t # "str"
       THEN Raise("AttributeError", "encode", location)
       ELSE Return(Str(Sha1Hex[location.v]))

(***************************************************************************)
(* ShellJob.retrieve.                                                      *)
(***************************************************************************)
\* ShellJob.retrieve(job_state); proc is what the command does: its exit
\* status and its standard output
ShellJob_retrieve(job, proc) ==
    IF job.attrs["command"].t # "str"
    THEN Raise("TypeError", "Popen", job.attrs["command"])
    ELSE IF proc.result # 0
         THEN Raise("ShellError", "Exit status", proc.result)
         ELSE Return(Str(proc.stdout))

(***************************************************************************)
(* UrlJob.retrieve.                                                        *)
(***************************************************************************)
Num(n) == [t |-> "num", v |-> n]

Digit(n) ==
    CASE n = 0 -> "0" [] n = 1 -> "1" [] n = 2 -> "2" [] n = 3 -> "3" [] n = 4 -> "4"
      [] n = 5 -> "5" [] n = 6 -> "6" [] n = 7 -> "7" [] n = 8 -> "8" [] n = 9 -> "9"

\* '%02d' and '%04d'
Dec2(n) == Digit((n \div 10) % 10) \o Digit(n % 10)
Dec4(n) == Dec2(n \div 100) \o Dec2(n % 100)

DayName(i) ==
    CASE i = 0 -> "Mon" [] i = 1 -> "Tue" [] i = 2 -> "Wed" [] i = 3 -> "Thu"
      [] i = 4 -> "Fri" [] i = 5 -> "Sat" [] i = 6 -> "Sun"

MonthName(i) ==
    CASE i = 1 -> "Jan" [] i = 2 -> "Feb" [] i = 3 -> "Mar" [] i = 4 -> "Apr"
      [] i = 5 -> "May" [] i = 6 -> "Jun" [] i = 7 -> "Jul" [] i = 8 -> "Aug"
      [] i = 9 -> "Sep" [] i = 10 -> "Oct" [] i = 11 -> "Nov" [] i = 12 -> "Dec"

\* email.utils.formatdate(timeval): the date, in UTC, timeval seconds after the epoch
formatdate(timeval) ==
    LET days == timeval \div 86400
        secs == timeval % 86400
        z == days + 719468
        era == z \div 146097
        doe == z - era * 146097
        yoe == (doe - (doe \div 1460) + (doe \div 36524) - (doe \div 146096)) \div 365
        doy == doe - (365 * yoe + (yoe \div 4) - (yoe \div 100))
        mp == (5 * doy + 2) \div 153
        day == doy - ((153 * mp + 2) \div 5) + 1
        month == IF mp < 10 THEN mp + 3 ELSE mp - 9
        year == yoe + era * 400 + (IF month <= 2 THEN 1 ELSE 0)
    IN DayName((days + 3) % 7) \o ", " \o Dec2(day) \o " " \o MonthName(month) \o " "
       \o Dec4(year) \o " " \o Dec2(secs \div 3600) \o ":" \o Dec2((secs \div 60) % 60)
       \o ":" \o Dec2(secs % 60) \o " -0000"

\* str.lower, on the characters of s
lower(s) ==
    LET cs == Chars(s)
    IN [i \in DOMAIN cs |-> IF cs[i] >= 65 /\ cs[i] <= 90 THEN cs[i] + 32 ELSE cs[i]]

\* str.startswith
startswith(s, prefix) ==
    LET cs == Chars(s)
        ps == Chars(prefix)
    IN Len(cs) >= Len(ps) /\ SubSeq(cs, 1, Len(ps)) = ps

\* add_custom_headers that pops only the keys spelled as the custom ones are
add_custom_headers_exact(headers, custom) ==
    LET headers_to_remove == {x \in DOMAIN headers : x \in DOMAIN custom}
    IN Update(Restrict(headers, DOMAIN headers \ headers_to_remove), custom)

\* UrlJob.add_custom_headers(headers), custom being self.headers
add_custom_headers(headers, custom) ==
    LET headers_to_remove ==
            {x \in DOMAIN headers : lower(x) \in {lower(y) : y \in DOMAIN custom}}
    IN Update(Restrict(headers, DOMAIN headers \ headers_to_remove), custom)

\* raise_for_status failing on server errors only
raise_for_status_server(status) == status >= 500 /\ status < 600

\* response.raise_for_status(): whether it raises HTTPError
raise_for_status(status) == status >= 400 /\ status < 600

\* the test for Not Modified that no response passes
not_modified_never(response) == FALSE

\* response.status_code == requests.codes.not_modified
not_modified(response) == response.status = 304

\* the write-back keeping the old etag when the response has no ETag header
save_etag_if_present(job_state, response) ==
    IF response.etag # None THEN [job_state EXCEPT !.etag = response.etag] ELSE job_state

\* job_state.etag = response.headers.get('ETag')
save_etag(job_state, response) == [job_state EXCEPT !.etag = response.etag]

\* the headers when ignore_cached adds its headers without clearing the
\* conditional ones
base_headers_keep_conditional(job, job_state, world) ==
    LET h1 == [k \in {"User-agent"} |-> Str(world.user_agent)]
        h2 == IF job_state.etag # None
              THEN Update(h1, [k \in {"If-None-Match"} |-> job_state.etag])
              ELSE h1
        h3 == IF job_state.timestamp # None
              THEN Update(h2, [k \in {"If-Modified-Since"} |->
                                  Str(formatdate(job_state.timestamp.v))])
              ELSE h2
        h4 == IF Truthy(job.attrs["ignore_cached"])
              THEN Update(h3, [k \in {"Cache-Control", "Expires"} |->
                                  CASE k = "Cache-Control" -> Str("max-age=172800")
                                    [] k = "Expires" -> Str(formatdate(world.now))])
              ELSE h3
    IN IF job.attrs["data"] # None
       THEN Update(h4, [k \in {"Content-type"} |-> Str("application/x-www-form-urlencoded")])
       ELSE h4

\* the headers UrlJob.retrieve fills in before the custom ones
base_headers(job, job_state, world) ==
    LET h1 == [k \in {"User-agent"} |-> Str(world.user_agent)]
        h2 == IF job_state.etag # None
              THEN Update(h1, [k \in {"If-None-Match"} |-> job_state.etag])
              ELSE h1
        h3 == IF job_state.timestamp # None
              THEN Update(h2, [k \in {"If-Modified-Since"} |->
                                  Str(formatdate(job_state.timestamp.v))])
              ELSE h2
        h4 == IF Truthy(job.attrs["ignore_cached"])
              THEN Update(h3, [k \in {"If-None-Match", "If-Modified-Since", "Cache-Control",
                                      "Expires"} |->
                                  CASE k = "If-None-Match" -> None
                                    [] k = "If-Modified-Since" -> Str(formatdate(0))
                                    [] k = "Cache-Control" -> Str("max-age=172800")
                                    [] k = "Expires" -> Str(formatdate(world.now))])
              ELSE h3
    IN IF job.attrs["data"] # None
       THEN Update(h4, [k \in {"Content-type"} |-> Str("application/x-www-form-urlencoded")])
       ELSE h4

\* the method when the declared one is kept for a request with a body
negotiated_method_declared(job) ==
    IF job.attrs["method"] # None THEN job.attrs["method"]
    ELSE IF job.attrs["data"] # None THEN Str("POST")
    ELSE Str("GET")

\* the method UrlJob.retrieve stores in self.method
negotiated_method(job) ==
    IF job.attrs["data"] # None THEN Str("POST")
    ELSE IF job.attrs["method"] = None THEN Str("GET")
    ELSE job.attrs["method"]

NoRequest == [sent |-> FALSE]

\* UrlJob.retrieve(job_state).  world is what the call meets outside the
\* program: the environment, the clock, the file read and the HTTP exchange.
\* Yields the job and the job_state as the call leaves them, the request it
\* made (if any), whether a response was received, and its outcome:
\* requests.request raises for a url that is no http url and when the server
\* cannot be reached.  The decoding of the body is left to the
\* response: response.text is the text the decoding steps end with.
UrlJob_retrieve(job, job_state, world) ==
    LET headers == base_headers(job, job_state, world)
        proxies ==
            [k \in {"http", "https"} |->
                IF k = "http"
                THEN IF job.attrs["http_proxy"] # None
                     THEN job.attrs["http_proxy"] ELSE world.HTTP_PROXY
                ELSE IF job.attrs["https_proxy"] # None
                     THEN job.attrs["https_proxy"] ELSE world.HTTPS_PROXY]
        job1 == [job EXCEPT !.attrs["method"] = negotiated_method(job)]
        url == job.attrs["url"]
        sent_headers ==
            IF Truthy(job.attrs["headers"])
            THEN add_custom_headers(headers, job.attrs["headers"].v)
            ELSE headers
        request ==
            [sent |-> TRUE, url |-> url, data |-> job1.attrs["data"], headers |-> sent_headers,
             method |-> job1.attrs["method"], verify |-> ~Truthy(job.attrs["ssl_no_verify"]),
             cookies |-> job.attrs["cookies"], proxies |-> proxies]
        response == world.response
    IN IF url.t # "str"
       THEN [job |-> job1, job_state |-> job_state, request |-> NoRequest, received |-> FALSE,
             out |-> Raise("AttributeError", "startswith", url)]
       ELSE IF startswith(url.v, "file://")
       THEN [job |-> job1, job_state |-> job_state, request |-> NoRequest, received |-> FALSE,
             out |-> world.file]
       ELSE IF ~(startswith(url.v, "http://") \/ startswith(url.v, "https://"))
       THEN [job |-> job1, job_state |-> job_state, request |-> request, received |-> FALSE,
             out |-> Raise("MissingSchema", "request", url)]
       ELSE IF ~world.connected
       THEN [job |-> job1, job_state |-> job_state, request |-> request, received |-> FALSE,
             out |-> Raise("ConnectionError", "request", url)]
       ELSE IF raise_for_status(response.status)
       THEN [job |-> job1, job_state |-> job_state, request |-> request, received |-> TRUE,
             out |-> Raise("HTTPError", "status", response.status)]
       ELSE IF not_modified(response)
       THEN [job |-> job1, job_state |-> job_state, request |-> request, received |-> TRUE,
             out |-> Raise("NotModifiedError", "", response.status)]
       ELSE [job |-> job1, job_state |-> save_etag(job_state, response), request |-> request,
             received |-> TRUE, out |-> Return(Str(response.text))]

(***************************************************************************)
(* AsyncJob and BrowserJob.                                                *)
(***************************************************************************)
\* an event loop, and the handle of a launched browser
Loop(l) == [t |-> "loop", id |-> l]
Browser(n) == [t |-> "browser", id |-> n]

\* the result of a future that is not done
Pending == [tag |-> "pending"]

\* AsyncJob.setup(loop)
AsyncJob_setup(job, loop) == [job EXCEPT !.attrs["loop"] = loop]

\* AsyncJob.retrieve that asks only whether the loop is set
AsyncJob_retrieve_set_only(job, running) ==
    IF ~Truthy(job.attrs["loop"])
    THEN Raise("RuntimeError", "Event loop not set up", None)
    ELSE Return(None)

\* AsyncJob.retrieve(job_state); running tells which loops are running
AsyncJob_retrieve(job, running) ==
    IF ~Truthy(job.attrs["loop"])
    THEN Raise("RuntimeError", "Event loop not set up", None)
    ELSE IF ~running[job.attrs["loop"].id]
    THEN Raise("RuntimeError", "The event loop must be running", None)
    ELSE Return(None)

\* AsyncJob.cleanup()
AsyncJob_cleanup(job, running) ==
    IF ~Truthy(job.attrs["loop"])
    THEN Raise("RuntimeError", "setup must be called before cleanup", None)
    ELSE IF running[job.attrs["loop"].id]
    THEN Raise("RuntimeError", "The event loop should have stopped", None)
    ELSE Return(None)

\* BrowserJob.setup that launches a browser whether or not one is launched
BrowserJob_setup_relaunch(job, loop, browser, running, fresh) ==
    LET job1 == AsyncJob_setup(job, loop)
    IN IF running[loop.id]
       THEN [job |-> job1, browser |-> browser, ran |-> FALSE,
             out |-> Raise("RuntimeError", "This event loop is already running", None)]
       ELSE [job |-> job1, browser |-> fresh, ran |-> TRUE, out |-> Return(None)]

\* BrowserJob.setup(loop).  browser is BrowserJob.browser and fresh the handle
\* pyppeteer.launch() yields.  Yields the job and BrowserJob.browser as the
\* call leaves them, whether it ran the loop to launch, and its outcome:
\* run_until_complete raises on a loop that is running.
BrowserJob_setup(job, loop, browser, running, fresh) ==
    LET job1 == AsyncJob_setup(job, loop)
    IN IF Truthy(browser)
       THEN [job |-> job1, browser |-> browser, ran |-> FALSE, out |-> Return(None)]
       ELSE IF running[loop.id]
       THEN [job |-> job1, browser |-> browser, ran |-> FALSE,
             out |-> Raise("RuntimeError", "This event loop is already running", None)]
       ELSE [job |-> job1, browser |-> fresh, ran |-> TRUE, out |-> Return(None)]

\* BrowserJob.cleanup that closes without asking whether a browser is launched
BrowserJob_cleanup_unasked(job, browser, running) ==
    LET r == AsyncJob_cleanup(job, running)
    IN IF r.tag = "raise"
       THEN [browser |-> browser, ran |-> FALSE, out |-> r]
       ELSE [browser |-> None, ran |-> TRUE, out |-> Return(None)]

\* BrowserJob.cleanup that closes the browser and keeps the handle
BrowserJob_cleanup_keep(job, browser, running) ==
    LET r == AsyncJob_cleanup(job, running)
    IN IF r.tag = "raise"
       THEN [browser |-> browser, ran |-> FALSE, out |-> r]
       ELSE IF Truthy(browser)
       THEN [browser |-> browser, ran |-> TRUE, out |-> Return(None)]
       ELSE [browser |-> browser, ran |-> FALSE, out |-> Return(None)]

\* BrowserJob.cleanup().  Yields BrowserJob.browser as the call leaves it,
\* whether it ran the loop to close the browser, and its outcome.
BrowserJob_cleanup(job, browser, running) ==
    LET r == AsyncJob_cleanup(job, running)
    IN IF r.tag = "raise"
       THEN [browser |-> browser, ran |-> FALSE, out |-> r]
       ELSE IF Truthy(browser)
       THEN [browser |-> None, ran |-> TRUE, out |-> Return(None)]
       ELSE [browser |-> browser, ran |-> FALSE, out |-> Return(None)]

\* BrowserJob._render(url), run on the loop.  failing names the call to the
\* browser that raises ("none": none does).  Yields the outcome and how many
\* browsing contexts the coroutine leaves open: context.close() is reached
\* only when no call before it raised.
BrowserJob_render(browser, failing) ==
    IF browser.t = "None"
    THEN [out |-> Raise("AttributeError", "createIncognitoBrowserContext", None), open |-> 0]
    ELSE IF failing = "createIncognitoBrowserContext"
    THEN [out |-> Raise("BrowserError", failing, None), open |-> 0]
    ELSE IF failing \in {"newPage", "goto", "content"}
    THEN [out |-> Raise("PageError", failing, None), open |-> 1]
    ELSE [out |-> Return(Str("content")), open |-> 0]

(***************************************************************************)
(* The state.                                                              *)
(***************************************************************************)
VARIABLES
    subclasses,   \* JobBase.__subclasses__: kind tag -> job class
    job,          \* the job at hand (NoJob: none)
    peer,         \* another job of the job list (NoJob: none)
    saved,        \* the job as it was when it was last serialized (NoJob: none)
    data,         \* the job record at hand
    hasData,      \* whether there is a job record at hand
    result,       \* what the last operation was and how it ended
    job_state,    \* the job_state handed to retrieve: etag and timestamp
    request,      \* the HTTP request the last retrieve sent (NoRequest: none)
    lastEtag,     \* the ETag header of the last response retrieve accepted
    bjobs,        \* the browser jobs of the batch
    running,      \* loop.is_running() of each event loop
    browser,      \* BrowserJob.browser, the handle all browser jobs share
    launches,     \* how many browsers were launched
    closes,       \* how many browsers were closed
    pc,           \* where the worker calling retrieve on each browser job is
    tasks,        \* the coroutines submitted to each loop and not yet run
    future,       \* the future of the coroutine each worker submitted
    contexts,     \* how many browsing contexts are open in the shared browser
    phase,        \* where the driving thread is in its batch
    batch,        \* the browser jobs of the batch
    handled,      \* the jobs of the batch the current phase has dealt with
    batches       \* how many batches were begun

jobVars == <<subclasses, job, peer, saved, data, hasData>>
urlVars == <<job_state, request, lastEtag>>
browserVars == <<bjobs, running, browser, launches, closes, pc, tasks, future, contexts>>
driverVars == <<phase, batch, handled, batches>>
vars == <<jobVars, result, urlVars, browserVars, driverVars>>

NoResult == [op |-> "none", out |-> Return(None)]

NewJobState == [etag |-> None, timestamp |-> None]

(***************************************************************************)
(* Inputs.                                                                 *)
(***************************************************************************)
FieldValues == {None} \cup {Str(s) : s \in FieldStrings}

PeerValues == {None} \cup {Str(s) : s \in PeerStrings}

\* the keys keyword maps and records are drawn over: the required key of each
\* kind, a key every kind declares, a key only url jobs declare, a foreign key
InputKeys == {"command", "url", "navigate", "name", "data", "foo"}

KeywordMaps ==
    UNION {[S -> FieldValues] : S \in {T \in SUBSET InputKeys : Cardinality(T) <= MaxKeys}}

\* what a record's 'kind' key holds: a registered tag, an unregistered one, null
KindValues == {Str("shell"), Str("url"), Str("browser"), Str("hookurl"), Str("nosuch"), None}

Records ==
    KeywordMaps \cup
    {Update(m, [k \in {"kind"} |-> kv]) : m \in KeywordMaps, kv \in KindValues}

\* what a shell command does
Processes == {[result |-> 0, stdout |-> "out"], [result |-> 1, stdout |-> "out"]}

\* the custom headers of url jobs: none, and names that differ from the
\* pre-filled ones in case only, not at all, or altogether
HeaderMaps ==
    {EmptyMap,
     [k \in {"USER-AGENT"} |-> Str("custom-agent")],
     [k \in {"content-type", "X-Token"} |-> Str("text/plain")],
     [k \in {"if-none-match", "If-Modified-Since"} |-> Str("custom")],
     [k \in {"expires", "CACHE-CONTROL"} |-> Str("no-cache")]}

\* the optional keys url jobs are built with, and the values of each
UrlOptionKeys == {"data", "method", "ignore_cached", "headers", "http_proxy"}

UrlOptionValues(k) ==
    CASE k = "url" -> {Str("http://a/"), Str("file:///a")}
      [] k = "data" -> {Str("a")}
      [] k = "method" -> {Str("PUT")}
      [] k = "ignore_cached" -> {Bool(TRUE)}
      [] k = "headers" -> {Dict(h) : h \in HeaderMaps}
      [] k = "http_proxy" -> {Str("http://proxy/")}

UrlKeywordMapsOver(S) ==
    {kw \in [S \cup {"url"} -> UNION {UrlOptionValues(k) : k \in S \cup {"url"}}] :
        \A k \in S \cup {"url"} : kw[k] \in UrlOptionValues(k)}

UrlKeywordMaps ==
    UNION {UrlKeywordMapsOver(S) :
               S \in {T \in SUBSET UrlOptionKeys : Cardinality(T) <= MaxOptions}}

\* the statuses of the responses: 1xx, 2xx, 3xx, Not Modified, 4xx, 5xx
StatusCodes == {101, 200, 204, 300, 304, 404, 503}

\* the ETag headers of the responses (None: the response has none)
ETags == {None, Str("e1"), Str("e2")}

\* the times the cache layer stamps a job_state with, and the time of the clock
Timestamps == {Num(1000000000)}

\* what a retrieve meets: proxies in the environment, the clock, the outcome of
\* reading a local file, and the HTTP exchange: a response, or none at all
Worlds ==
    {[user_agent |-> "urlwatch", HTTP_PROXY |-> None, HTTPS_PROXY |-> None, now |-> 1000000000,
      file |-> f, connected |-> c,
      response |-> [status |-> st, etag |-> e, text |-> "text"]] :
        f \in {Return(Str("text"))}, c \in {TRUE}, st \in StatusCodes, e \in ETags}
    \cup
    {[user_agent |-> "urlwatch", HTTP_PROXY |-> None, HTTPS_PROXY |-> None, now |-> 1000000000,
      file |-> Raise("FileNotFoundError", "open", None), connected |-> FALSE,
      response |-> [status |-> 200, etag |-> None, text |-> ""]]}

\* the worlds in which every exchange ends well
PlainWorlds == {w \in Worlds : w.connected /\ w.response.status = 200 /\ w.response.etag = None}

\* the browser jobs of a batch, and the event loops there are
BrowserJobs == 1 .. MaxJobs
Loops == {"main", "other"}

\* the calls of a rendering that may raise ("none": none does), and those
\* among them that raise before a browsing context is open
RenderFailures == {"none", "createIncognitoBrowserContext", "newPage", "goto", "content"}
EarlyFailures == {"none", "createIncognitoBrowserContext"}

\* how a rendering ends that runs while the browser is being closed: well,
\* with a failure, or not at all
ClosingOutcomes == {"none", "goto", "pending"}

Init ==
    /\ subclasses = ModuleSubclasses
    /\ job = NoJob
    /\ peer = NoJob
    /\ saved = NoJob
    /\ data = EmptyMap
    /\ hasData = FALSE
    /\ result = NoResult
    /\ job_state = NewJobState
    /\ request = NoRequest
    /\ lastEtag = None
    /\ bjobs = [j \in BrowserJobs |-> New(BrowserJob, [k \in {"navigate"} |-> Str("http://a/")]).val]
    /\ running = [l \in Loops |-> FALSE]
    /\ browser = None
    /\ launches = 0
    /\ closes = 0
    /\ pc = [j \in BrowserJobs |-> "idle"]
    /\ tasks = [l \in Loops |-> <<>>]
    /\ future = [j \in BrowserJobs |-> Pending]
    /\ contexts = 0
    /\ phase = "idle"
    /\ batch = {}
    /\ handled = {}
    /\ batches = 0

(***************************************************************************)
(* Operations on jobs and records.                                         *)
(***************************************************************************)
\* nothing is at hand: no job, no record, no outcome to look at
Idle == job = NoJob /\ ~hasData /\ result = NoResult

\* a hooks file declares a job class
DeclareSubclass(cls) ==
    /\ Idle
    /\ cls.kind \notin DOMAIN subclasses
    /\ subclasses' = register(subclasses, cls)
    /\ UNCHANGED <<job, peer, saved, data, hasData, result, urlVars, browserVars, driverVars>>

\* cls(**kwargs)
Construct(cls, kwargs) ==
    LET r == New(cls, kwargs)
    IN /\ Idle
       /\ job' = IF r.tag = "return" THEN r.val ELSE NoJob
       /\ saved' = NoJob
       /\ data' = EmptyMap
       /\ hasData' = FALSE
       /\ result' = [op |-> "construct", out |-> r, cls |-> cls, kwargs |-> kwargs]
       /\ UNCHANGED <<subclasses, peer, urlVars, browserVars, driverVars>>

\* a second job is built from its location alone
ConstructPeer(cls, location) ==
    LET r == New(cls, [k \in {cls.required[1]} |-> location])
    IN /\ Idle
       /\ r.tag = "return"
       /\ peer' = r.val
       /\ UNCHANGED <<subclasses, job, saved, data, hasData, result, urlVars, browserVars, driverVars>>

\* job.serialize()
Serialize ==
    /\ job # NoJob
    /\ data' = serialize(job)
    /\ hasData' = TRUE
    /\ saved' = job
    /\ result' = [op |-> "serialize", out |-> Return(None)]
    /\ UNCHANGED <<subclasses, job, peer, urlVars, browserVars, driverVars>>

\* the record is written to the job list without its 'kind' key
OmitKind ==
    /\ hasData
    /\ "kind" \in DOMAIN data
    /\ data' = Restrict(data, DOMAIN data \ {"kind"})
    /\ result' = [op |-> "omitkind", out |-> Return(None)]
    /\ UNCHANGED <<subclasses, job, peer, saved, hasData, urlVars, browserVars, driverVars>>

\* a record is read from the job list
ReadRecord(d) ==
    /\ Idle
    /\ data' = d
    /\ hasData' = TRUE
    /\ job' = NoJob
    /\ saved' = NoJob
    /\ result' = [op |-> "read", out |-> Return(None)]
    /\ UNCHANGED <<subclasses, peer, urlVars, browserVars, driverVars>>

\* JobBase.unserialize(data)
Unserialize ==
    /\ hasData
    /\ LET r == unserialize(subclasses, data)
       IN /\ job' = IF r.tag = "return" THEN r.val ELSE NoJob
          /\ result' = [op |-> "unserialize", out |-> r]
    /\ UNCHANGED <<subclasses, peer, saved, data, hasData, urlVars, browserVars, driverVars>>

\* the driver is done with the job and the record at hand
Discard ==
    /\ ~Idle
    /\ job' = NoJob
    /\ saved' = NoJob
    /\ data' = EmptyMap
    /\ hasData' = FALSE
    /\ result' = NoResult
    /\ job_state' = NewJobState
    /\ request' = NoRequest
    /\ lastEtag' = None
    /\ UNCHANGED <<subclasses, peer, browserVars, driverVars>>

\* job.retrieve(job_state) on a shell job
ShellRetrieve(proc) ==
    /\ job # NoJob
    /\ job.class.impl = "ShellJob"
    /\ result' = [op |-> "retrieve", out |-> ShellJob_retrieve(job, proc)]
    /\ UNCHANGED <<jobVars, urlVars, browserVars, driverVars>>

\* job.retrieve(job_state) on a url job
UrlRetrieve(world) ==
    /\ job # NoJob
    /\ job.class.impl = "UrlJob"
    /\ \E r \in {UrlJob_retrieve(job, job_state, world)} :
          /\ job' = r.job
          /\ job_state' = r.job_state
          /\ request' = r.request
          /\ lastEtag' = IF r.received /\ r.out.tag = "return"
                         THEN world.response.etag ELSE lastEtag
          /\ result' = [op |-> "retrieve", out |-> r.out, before |-> job_state,
                        world |-> world, received |-> r.received]
    /\ UNCHANGED <<subclasses, peer, saved, data, hasData, browserVars, driverVars>>

\* between two retrievals the cache layer stamps the job_state with the time
StampState(t) ==
    /\ job # NoJob
    /\ job_state.timestamp # t
    /\ job_state' = [job_state EXCEPT !.timestamp = t]
    /\ result' = [op |-> "stamp", out |-> Return(None)]
    /\ UNCHANGED <<jobVars, request, lastEtag, browserVars, driverVars>>

(***************************************************************************)
(* Operations on browser jobs: the driving thread sets up and cleans up,   *)
(* starts and stops the loops; the loop thread runs what was submitted; a  *)
(* worker per job calls retrieve.                                          *)
(***************************************************************************)
\* the futures after the coroutines ts were run with the outcomes oc
Resolve(fut, ts, oc) ==
    [j \in BrowserJobs |->
        IF \E i \in DOMAIN ts : ts[i] = j
        THEN oc[CHOOSE i \in DOMAIN ts : ts[i] = j]
        ELSE fut[j]]

\* job.setup(loop) on the driving thread.  Launching runs the loop, and with
\* it the coroutines waiting there, before BrowserJob.browser is assigned.
Setup(j, l) ==
    \E r \in {BrowserJob_setup(bjobs[j], Loop(l), browser, running, Browser(launches + 1))} :
        /\ r.ran => launches < MaxLaunches
        /\ bjobs' = [bjobs EXCEPT ![j] = r.job]
        /\ browser' = r.browser
        /\ launches' = IF r.ran THEN launches + 1 ELSE launches
        /\ IF r.ran
           THEN /\ future' = Resolve(future, tasks[l],
                                     [i \in DOMAIN tasks[l] |-> BrowserJob_render(browser, "none").out])
                /\ tasks' = [tasks EXCEPT ![l] = <<>>]
           ELSE UNCHANGED <<tasks, future>>
        /\ result' = [op |-> "setup", job |-> j, out |-> r.out]
        /\ UNCHANGED <<jobVars, urlVars, running, closes, pc, contexts>>

\* the driving thread has a thread run loop.run_forever()
LoopStart(l) ==
    /\ ~running[l]
    /\ running' = [running EXCEPT ![l] = TRUE]
    /\ result' = [op |-> "start", loop |-> l, out |-> Return(None)]
    /\ UNCHANGED <<jobVars, urlVars, bjobs, browser, launches, closes, pc, tasks, future, contexts>>

\* the driving thread stops the loop
LoopStop(l) ==
    /\ running[l]
    /\ running' = [running EXCEPT ![l] = FALSE]
    /\ result' = [op |-> "stop", loop |-> l, out |-> Return(None)]
    /\ UNCHANGED <<jobVars, urlVars, bjobs, browser, launches, closes, pc, tasks, future, contexts>>

\* job.retrieve(job_state) on a worker, first part: super().retrieve(job_state)
RetrieveCheck(j) ==
    /\ pc[j] = "idle"
    /\ \E r \in {AsyncJob_retrieve(bjobs[j], running)} :
          /\ pc' = [pc EXCEPT ![j] = IF r.tag = "raise" THEN "idle" ELSE "checked"]
          /\ result' = [op |-> "retrieve", job |-> j,
                        out |-> IF r.tag = "raise" THEN r ELSE Pending]
    /\ UNCHANGED <<jobVars, urlVars, bjobs, running, browser, launches, closes, tasks, future,
                   contexts>>

\* second part: asyncio.run_coroutine_threadsafe(_render(navigate), self.loop)
RetrieveSubmit(j) ==
    /\ pc[j] = "checked"
    /\ IF ~Truthy(bjobs[j].attrs["loop"])
       THEN /\ pc' = [pc EXCEPT ![j] = "idle"]
            /\ result' = [op |-> "retrieve", job |-> j,
                          out |-> Raise("AttributeError", "call_soon_threadsafe", None)]
            /\ UNCHANGED <<tasks, future>>
       ELSE /\ pc' = [pc EXCEPT ![j] = "waiting"]
            /\ tasks' = [tasks EXCEPT ![bjobs[j].attrs["loop"].id] = Append(@, j)]
            /\ future' = [future EXCEPT ![j] = Pending]
            /\ result' = [op |-> "retrieve", job |-> j, out |-> Pending]
    /\ UNCHANGED <<jobVars, urlVars, bjobs, running, browser, launches, closes, contexts>>

\* the thread of a running loop runs the coroutine submitted first
LoopRun(l, failing) ==
    /\ running[l]
    /\ tasks[l] # <<>>
    /\ \E r \in {BrowserJob_render(browser, failing)} :
          /\ contexts + r.open <= MaxContexts
          /\ future' = [future EXCEPT ![Head(tasks[l])] = r.out]
          /\ contexts' = contexts + r.open
    /\ tasks' = [tasks EXCEPT ![l] = Tail(@)]
    /\ result' = [op |-> "run", loop |-> l, job |-> Head(tasks[l]), out |-> Return(None)]
    /\ UNCHANGED <<jobVars, urlVars, bjobs, running, browser, launches, closes, pc>>

\* third part: .result() hands the worker what the coroutine ended with
RetrieveResult(j) ==
    /\ pc[j] = "waiting"
    /\ future[j] # Pending
    /\ pc' = [pc EXCEPT ![j] = "idle"]
    /\ future' = [future EXCEPT ![j] = Pending]
    /\ result' = [op |-> "retrieve", job |-> j, out |-> future[j]]
    /\ UNCHANGED <<jobVars, urlVars, bjobs, running, browser, launches, closes, tasks, contexts>>

\* job.cleanup() on the driving thread.  Closing runs the loop, and with it
\* the coroutines waiting there, against the browser being closed; the
\* browsing contexts end with their browser.
Cleanup(j) ==
    \E r \in {BrowserJob_cleanup(bjobs[j], browser, running)} :
        /\ browser' = r.browser
        /\ closes' = IF r.ran THEN closes + 1 ELSE closes
        /\ contexts' = IF r.ran THEN 0 ELSE contexts
        /\ IF r.ran
           THEN LET l == bjobs[j].attrs["loop"].id
                    ts == tasks[l]
                IN \E ends \in [DOMAIN ts -> ClosingOutcomes] :
                      LET outs == [i \in DOMAIN ts |->
                                      IF ends[i] = "pending" THEN Pending
                                      ELSE BrowserJob_render(browser, ends[i]).out]
                      IN /\ future' = Resolve(future, ts, outs)
                         /\ tasks' = [tasks EXCEPT ![l] =
                                         SelectSeq(ts, LAMBDA k : Resolve(future, ts, outs)[k] = Pending)]
           ELSE UNCHANGED <<tasks, future>>
        /\ result' = [op |-> "cleanup", job |-> j, out |-> r.out]
        /\ UNCHANGED <<jobVars, urlVars, bjobs, running, launches, pc>>

\* construction, serialization and kind resolution
Next ==
    \/ Idle /\ \E cls \in HookClasses : DeclareSubclass(cls)
    \/ Idle /\ \E k \in DOMAIN subclasses, kwargs \in KeywordMaps : Construct(subclasses[k], kwargs)
    \/ Serialize
    \/ OmitKind
    \/ Idle /\ \E d \in Records : ReadRecord(d)
    \/ Unserialize
    \/ Discard

Spec == Init /\ [][Next]_vars

\* the life of a job next to another job of the list: built, serialized,
\* rebuilt, retrieved
NextIdentity ==
    \/ Idle /\ \E cls \in HookClasses : DeclareSubclass(cls)
    \/ Idle /\ \E k \in DOMAIN subclasses, kwargs \in KeywordMaps : Construct(subclasses[k], kwargs)
    \/ Idle /\ \E k \in DOMAIN subclasses, v \in PeerValues : ConstructPeer(subclasses[k], v)
    \/ Serialize
    \/ OmitKind
    \/ Unserialize
    \/ \E proc \in Processes : ShellRetrieve(proc)
    \/ \E world \in PlainWorlds : UrlRetrieve(world)
    \/ Discard

SpecIdentity == Init /\ [][NextIdentity]_vars

\* the retrieval cycles of a url job over one job_state
NextUrl ==
    \/ Idle /\ \E kwargs \in UrlKeywordMaps : Construct(UrlJob, kwargs)
    \/ \E world \in Worlds : UrlRetrieve(world)
    \/ \E t \in Timestamps : StampState(t)

SpecUrl == Init /\ [][NextUrl]_vars

\* a batch of browser jobs, in every order of the calls
NextBrowser ==
    \/ \E j \in BrowserJobs, l \in Loops : Setup(j, l) /\ UNCHANGED driverVars
    \/ \E l \in Loops : LoopStart(l) /\ UNCHANGED driverVars
    \/ \E l \in Loops : LoopStop(l) /\ UNCHANGED driverVars
    \/ \E j \in BrowserJobs : RetrieveCheck(j) /\ UNCHANGED driverVars
    \/ \E j \in BrowserJobs : RetrieveSubmit(j) /\ UNCHANGED driverVars
    \/ \E l \in Loops, failing \in EarlyFailures : LoopRun(l, failing) /\ UNCHANGED driverVars
    \/ \E j \in BrowserJobs : RetrieveResult(j) /\ UNCHANGED driverVars
    \/ \E j \in BrowserJobs : Cleanup(j) /\ UNCHANGED driverVars

SpecBrowser == Init /\ [][NextBrowser]_vars

(***************************************************************************)
(* The driver contract: setup on every job of the batch with one loop, the *)
(* loop runs and the workers retrieve, the loop stops, cleanup on every    *)
(* job of the batch.                                                       *)
(***************************************************************************)
\* the driving thread takes the first n browser jobs as its next batch
DriverBegin(n) ==
    /\ phase = "idle"
    /\ batches < MaxLaunches
    /\ phase' = "setup"
    /\ batch' = 1 .. n
    /\ handled' = {}
    /\ batches' = batches + 1
    /\ result' = [op |-> "begin", out |-> Return(None)]
    /\ UNCHANGED <<jobVars, urlVars, browserVars>>

DriverSetup(j) ==
    /\ phase = "setup"
    /\ j \in batch \ handled
    /\ Setup(j, "main")
    /\ handled' = handled \cup {j}
    /\ UNCHANGED <<phase, batch, batches>>

DriverStart ==
    /\ phase = "setup"
    /\ handled = batch
    /\ LoopStart("main")
    /\ phase' = "run"
    /\ handled' = {}
    /\ UNCHANGED <<batch, batches>>

\* a worker is handed a job of the batch while the loop is meant to run
WorkerRetrieve(j) ==
    /\ phase = "run"
    /\ j \in batch
    /\ RetrieveCheck(j)
    /\ UNCHANGED driverVars

\* every worker is back
WorkersDone == \A j \in BrowserJobs : pc[j] = "idle"

\* the driving thread stops the loop, whatever the workers are at
DriverStopAnyTime ==
    /\ phase = "run"
    /\ LoopStop("main")
    /\ phase' = "cleanup"
    /\ handled' = {}
    /\ UNCHANGED <<batch, batches>>

\* the driving thread stops the loop once all workers are done
DriverStop == WorkersDone /\ DriverStopAnyTime

DriverCleanup(j) ==
    /\ phase = "cleanup"
    /\ j \in batch \ handled
    /\ Cleanup(j)
    /\ handled' = handled \cup {j}
    /\ UNCHANGED <<phase, batch, batches>>

\* the batch is over: every job of it was cleaned up
BatchOver == phase = "cleanup" /\ handled = batch

DriverEnd ==
    /\ BatchOver
    /\ phase' = "idle"
    /\ batch' = {}
    /\ handled' = {}
    /\ result' = [op |-> "end", out |-> Return(None)]
    /\ UNCHANGED <<jobVars, urlVars, browserVars, batches>>

\* what the workers and the loop thread do next to the driving thread
NextWorkers ==
    \/ \E j \in BrowserJobs : WorkerRetrieve(j)
    \/ \E j \in BrowserJobs : RetrieveSubmit(j) /\ UNCHANGED driverVars
    \/ \E failing \in RenderFailures : LoopRun("main", failing) /\ UNCHANGED driverVars
    \/ \E j \in BrowserJobs : RetrieveResult(j) /\ UNCHANGED driverVars

\* batches that follow the driver contract
NextBatch ==
    \/ \E n \in BrowserJobs : DriverBegin(n)
    \/ \E j \in BrowserJobs : DriverSetup(j)
    \/ DriverStart
    \/ NextWorkers
    \/ DriverStop
    \/ \E j \in BrowserJobs : DriverCleanup(j)
    \/ DriverEnd

SpecBatch == Init /\ [][NextBatch]_vars

\* batches whose driving thread stops the loop without waiting for the workers
NextConcurrent ==
    \/ \E n \in BrowserJobs : DriverBegin(n)
    \/ \E j \in BrowserJobs : DriverSetup(j)
    \/ DriverStart
    \/ NextWorkers
    \/ DriverStopAnyTime
    \/ \E j \in BrowserJobs : DriverCleanup(j)
    \/ DriverEnd

\* every thread gets to run: a worker that can go on does, the thread of a
\* running loop runs what is submitted, and the driving thread goes through
\* the batch it began; no further batch need come
Fairness ==
    /\ WF_vars(\E j \in BrowserJobs : DriverSetup(j))
    /\ WF_vars(DriverStart)
    /\ \A j \in BrowserJobs : WF_vars(RetrieveSubmit(j) /\ UNCHANGED driverVars)
    /\ \A j \in BrowserJobs : WF_vars(RetrieveResult(j) /\ UNCHANGED driverVars)
    /\ WF_vars(\E failing \in RenderFailures : LoopRun("main", failing) /\ UNCHANGED driverVars)
    /\ WF_vars(DriverStopAnyTime)
    /\ WF_vars(\E j \in BrowserJobs : DriverCleanup(j))
    /\ WF_vars(DriverEnd)

SpecWorkers == Init /\ [][NextConcurrent]_vars /\ Fairness

(***************************************************************************)
(* Properties of construction, serialization and identity.                 *)
(***************************************************************************)
\* the populated fields of a job: its declared keys that do not hold None
Populated(j) == [k \in {d \in Declared(j.class) : j.attrs[d] # None} |-> j.attrs[k]]

\* a valid job: every required field is populated
Valid(j) == \A r \in Range(j.class.required) : j.attrs[r] # None

\* the kinds whose required keys are all keys of d and that declare every key of d
KindsFitting(d) ==
    {k \in DOMAIN subclasses :
        /\ Range(subclasses[k].required) \subseteq DOMAIN d
        /\ DOMAIN d \subseteq Declared(subclasses[k])}

\* C1: unserializing the serialized record of a valid job, with its 'kind'
\* key or without it when the record is then unambiguous, yields a job of the
\* same kind with the same populated fields.
RoundTrip ==
    (/\ result.op = "unserialize"
     /\ saved # NoJob
     /\ Valid(saved)
     /\ ("kind" \in DOMAIN data \/ Cardinality(KindsFitting(data)) = 1))
    => /\ result.out.tag = "return"
       /\ job.class = saved.class
       /\ Populated(job) = Populated(saved)

\* a browser job with a populated optional field went through serialize, lost
\* its 'kind' key and was rebuilt by auto-detection
RoundTripWitness ==
    /\ result.op = "unserialize"
    /\ saved # NoJob
    /\ Valid(saved)
    /\ "kind" \notin DOMAIN data
    /\ saved.class.kind = "browser"
    /\ saved.attrs["name"] = Str("")
    /\ job.class = saved.class

\* C2: without a 'kind' key, unserialize builds a job of the one kind that fits
\* the record, fails with the no-match error when none fits (so whenever the
\* record has a key no kind declares), and fails with the ambiguity error
\* listing every fitting kind when several fit.
AutoDetection ==
    (result.op = "unserialize" /\ "kind" \notin DOMAIN data)
    => LET fit == KindsFitting(data)
           out == result.out
       IN /\ Cardinality(fit) = 1 => (out.tag = "return" /\ job.class.kind \in fit)
          /\ fit = {} => /\ out.tag = "raise"
                         /\ out.msg = "Kind is not specified, and no job matches"
                         /\ job = NoJob
          /\ Cardinality(fit) > 1 => /\ out.tag = "raise"
                                     /\ out.msg = "Multiple kinds of jobs match"
                                     /\ out.arg = fit
                                     /\ job = NoJob
          /\ (\E key \in DOMAIN data : \A k \in DOMAIN subclasses : key \notin Declared(subclasses[k]))
                => fit = {}

\* a record without 'kind' was refused because two kinds fit it
AutoDetectionWitness ==
    /\ result.op = "unserialize"
    /\ "kind" \notin DOMAIN data
    /\ result.out.tag = "raise"
    /\ result.out.msg = "Multiple kinds of jobs match"
    /\ Cardinality(result.out.arg) = 2

\* C3: a record whose 'kind' key names a registered kind is built as that kind
\* whatever its other keys (auto-detection is not run: only a missing required
\* key can fail it); a 'kind' that names no registered kind fails with the
\* unknown-kind error and no job is built.
ExplicitKind ==
    (result.op = "unserialize" /\ "kind" \in DOMAIN data)
    => LET kind == data["kind"]
           out == result.out
       IN IF kind.t = "str" /\ kind.v \in DOMAIN subclasses
          THEN IF Range(subclasses[kind.v].required) \subseteq DOMAIN data
               THEN out.tag = "return" /\ job.class = subclasses[kind.v]
               ELSE /\ out.tag = "raise"
                    /\ out.msg = "Required field missing"
                    /\ out.arg \in Range(subclasses[kind.v].required) \ DOMAIN data
          ELSE out.tag = "raise" /\ out.exc = "KeyError" /\ job = NoJob

\* a record naming the kind shell and holding a key that shell jobs do not
\* declare was built as a shell job
ExplicitKindWitness ==
    /\ result.op = "unserialize"
    /\ "kind" \in DOMAIN data
    /\ data["kind"] = Str("shell")
    /\ DOMAIN data \ ({"kind"} \cup Declared(ShellJob)) # {}
    /\ result.out.tag = "return"
    /\ job.class = ShellJob

\* C4: constructing a job from a keyword map that lacks a required key fails
\* with an error naming a missing key and leaves no job; otherwise it
\* succeeds, and every optional key the map lacks holds None.
RequiredFieldEnforcement ==
    result.op = "construct"
    => LET cls == result.cls
           missing == Range(cls.required) \ DOMAIN result.kwargs
           out == result.out
       IN IF missing # {}
          THEN /\ out.tag = "raise"
               /\ out.exc = "ValueError"
               /\ out.arg \in missing
               /\ job = NoJob
          ELSE /\ out.tag = "return"
               /\ job = out.val
               /\ job.class = cls
               /\ \A k \in DOMAIN result.kwargs : job.attrs[k] = result.kwargs[k]
               /\ \A o \in Range(cls.optional) \ DOMAIN result.kwargs : job.attrs[o] = None

\* a url job was refused: its keyword map held optional keys but not 'url'
RequiredFieldEnforcementWitness ==
    /\ result.op = "construct"
    /\ result.cls = UrlJob
    /\ DOMAIN result.kwargs = {"name", "data"}
    /\ result.out.tag = "raise"
    /\ result.out.arg = "url"

\* the jobs in the state
JobsAtHand == {job, peer, saved} \ {NoJob}

\* C5: the GUID depends on the location alone: two jobs, of any kinds and
\* with any other fields, have equal GUIDs exactly when their locations are
\* equal; and a job keeps its GUID through every retrieve, serialize and
\* unserialize that leaves its location as it was.
GuidStability ==
    /\ [](\A j1, j2 \in JobsAtHand :
            (get_location(j1) = get_location(j2)) <=> (get_guid(j1) = get_guid(j2)))
    /\ [][(job # NoJob /\ job' # NoJob /\ get_location(job') = get_location(job))
              => get_guid(job') = get_guid(job)]_vars

\* a url job rebuilt from its record and a shell job share a location, and
\* differ in another field
GuidStabilityWitness ==
    /\ result.op = "unserialize"
    /\ saved # NoJob /\ job # NoJob /\ peer # NoJob
    /\ job.class.kind = "url"
    /\ peer.class.kind = "shell"
    /\ get_location(job) = Str("a")
    /\ get_location(peer) = Str("a")
    /\ job.attrs["name"] = Str("a")
    /\ get_guid(job) = get_guid(peer)
    /\ get_guid(job).tag = "return"

(***************************************************************************)
(* Properties of UrlJob.retrieve.                                          *)
(***************************************************************************)
\* the last operation was a retrieve that received an HTTP response
Responded == result.op = "retrieve" /\ result.received

\* C6: when the response to a url job's retrieve has status 304, retrieve
\* fails with NotModifiedError, which is not the error of the other statuses,
\* returns no content, and leaves etag and timestamp of the job_state as they
\* were before the call.
NotModifiedSentinel ==
    (Responded /\ result.world.response.status = 304) =>
        /\ result.out.tag = "raise"
        /\ result.out.exc = "NotModifiedError"
        /\ result.out.exc # "HTTPError"
        /\ job_state = result.before

\* a 304 answers a conditional request of a job_state holding etag and timestamp
NotModifiedSentinelWitness ==
    /\ Responded
    /\ result.world.response.status = 304
    /\ result.out.tag = "raise"
    /\ result.before.etag = Str("e1")
    /\ result.before.timestamp # None
    /\ request.headers["If-None-Match"] = Str("e1")
    /\ job_state = result.before

\* C7, as stated: a successful response without an ETag header leaves
\* job_state.etag as it was before the call.
EtagKeptWithoutHeader ==
    (Responded /\ result.out.tag = "return" /\ result.world.response.etag = None) =>
        job_state.etag = result.before.etag

\* C7, amended: a successful HTTP response sets job_state.etag to the
\* response's ETag header, and to None when the response has none; every other
\* retrieve leaves job_state.etag as it was.  So job_state.etag is always the
\* ETag header, or its absence, of the last successful HTTP response.
EtagWriteBack ==
    /\ result.op = "retrieve" =>
          job_state.etag = IF result.received /\ result.out.tag = "return"
                           THEN result.world.response.etag
                           ELSE result.before.etag
    /\ job_state.etag = lastEtag

\* a successful response without an ETag header follows one that had one
EtagWriteBackWitness ==
    /\ Responded
    /\ result.out.tag = "return"
    /\ result.before.etag = Str("e1")
    /\ result.world.response.etag = None
    /\ job_state.etag = None

\* C8, as stated: every status that is neither 2xx nor 304 fails with an
\* HTTP-status error carrying the code, content is returned for 2xx only, and
\* no failing status modifies job_state.etag.
Non2xxFails ==
    Responded =>
        LET status == result.world.response.status
        IN /\ (~(status >= 200 /\ status < 300) /\ status # 304) =>
                  result.out = Raise("HTTPError", "status", status)
           /\ result.out.tag = "return" => (status >= 200 /\ status < 300)
           /\ result.out.tag = "raise" => job_state.etag = result.before.etag

\* C8, amended: every 4xx and 5xx status fails with an HTTP-status error
\* carrying the code; content is returned for every other status but 304, so
\* for 1xx and 3xx as for 2xx; no failing status modifies job_state.etag.
HttpStatusHandling ==
    Responded =>
        LET status == result.world.response.status
        IN /\ (status >= 400 /\ status < 600) =>
                  result.out = Raise("HTTPError", "status", status)
           /\ result.out.tag = "return" <=> (~(status >= 400 /\ status < 600) /\ status # 304)
           /\ result.out.tag = "raise" => job_state.etag = result.before.etag

\* a 404 whose ETag header is not the etag of the job_state
HttpStatusHandlingWitness ==
    /\ Responded
    /\ result.world.response.status = 404
    /\ result.out = Raise("HTTPError", "status", 404)
    /\ result.before.etag = Str("e1")
    /\ result.world.response.etag = Str("e2")
    /\ job_state.etag = Str("e1")

\* whether two header names are equal ignoring case
SameName(x, y) == lower(x) = lower(y)

\* C9: once the custom headers are merged, the request carries every custom
\* header with its custom value, no pre-filled header whose name equals a
\* custom one ignoring case, and every other pre-filled header unchanged.
HeaderOverride ==
    (result.op = "retrieve" /\ request.sent /\ Truthy(job.attrs["headers"])) =>
        LET custom == job.attrs["headers"].v
            base == base_headers(job, result.before, result.world)
            sent == request.headers
        IN /\ \A c \in DOMAIN custom : c \in DOMAIN sent /\ sent[c] = custom[c]
           /\ \A b \in DOMAIN base :
                 IF \E c \in DOMAIN custom : SameName(b, c)
                 THEN b \in DOMAIN sent => (b \in DOMAIN custom /\ sent[b] = custom[b])
                 ELSE b \in DOMAIN sent /\ sent[b] = base[b]
           /\ DOMAIN sent \subseteq DOMAIN base \cup DOMAIN custom

\* a POST whose custom content-type differs in case from the pre-filled one
HeaderOverrideWitness ==
    /\ result.op = "retrieve"
    /\ request.sent
    /\ job.attrs["data"] # None
    /\ Truthy(job.attrs["headers"])
    /\ "content-type" \in DOMAIN job.attrs["headers"].v
    /\ "Content-type" \in DOMAIN base_headers(job, result.before, result.world)
    /\ "Content-type" \notin DOMAIN request.headers
    /\ request.headers["content-type"] = Str("text/plain")
    /\ request.headers["User-agent"] = Str("urlwatch")

(***************************************************************************)
(* Properties of the browser lifecycle.                                    *)
(***************************************************************************)
\* setup was called on browser job j, and the loop it was given is running
SetUp(j) == Truthy(bjobs[j].attrs["loop"])
LoopRunning(j) == SetUp(j) /\ running[bjobs[j].attrs["loop"].id]

IsRuntimeError(out) == out.tag = "raise" /\ out.exc = "RuntimeError"

\* C10: a retrieve called on a browser job that was never set up, or whose
\* loop is not running, fails with RuntimeError and submits nothing to any
\* loop; a cleanup called on a browser job that was never set up, or whose
\* loop is running, fails with RuntimeError and neither closes nor clears the
\* shared browser.
BrowserLifecycleErrors ==
    [][\A j \in BrowserJobs :
          /\ (/\ pc[j] = "idle"
              /\ result'.op = "retrieve"
              /\ result'.job = j
              /\ ~SetUp(j) \/ ~LoopRunning(j))
                => (/\ IsRuntimeError(result'.out)
                    /\ pc'[j] = "idle"
                    /\ tasks' = tasks
                    /\ future' = future)
          /\ (/\ result'.op = "cleanup"
              /\ result'.job = j
              /\ ~SetUp(j) \/ LoopRunning(j))
                => (/\ IsRuntimeError(result'.out)
                    /\ browser' = browser
                    /\ closes' = closes)]_vars

\* a cleanup that failed while the loop of its job ran and the browser was
\* launched, next to a job that was never set up
BrowserLifecycleErrorsWitness ==
    /\ result.op = "cleanup"
    /\ IsRuntimeError(result.out)
    /\ LoopRunning(result.job)
    /\ Truthy(browser)
    /\ closes = 0
    /\ \E j \in BrowserJobs : ~SetUp(j) /\ pc[j] = "idle"

\* C11: when a batch of any number of browser jobs that follows the driver
\* contract is over, the shared browser was launched exactly once and closed
\* exactly once in it, and the shared handle is absent.
SingleLaunchSingleClose ==
    /\ BatchOver => (launches = batches /\ closes = batches /\ browser = None)
    /\ phase = "idle" => (launches = batches /\ closes = batches /\ browser = None)
    /\ phase \in {"setup", "run"} => (launches <= batches /\ closes = batches - 1)

\* the second batch, of two jobs, is over
SingleLaunchSingleCloseWitness ==
    /\ BatchOver
    /\ batch = {1, 2}
    /\ batches = 2
    /\ launches = 2
    /\ closes = 2
    /\ browser = None
    /\ \A j \in batch : SetUp(j)

\* C12, as stated: while a job of the batch is still to be cleaned up the
\* shared handle stays launched, so that the last cleanup call, and no
\* earlier one, closes and clears it.
TeardownByLastCleanup ==
    (phase = "cleanup" /\ handled # batch) => Truthy(browser)

\* C12, amended: the shared handle stays launched until the first cleanup
\* call of the batch and no longer: that call closes and clears it, and the
\* later ones, the last included, find it absent and close nothing.
TeardownByFirstCleanup ==
    /\ [](phase = "cleanup" => (Truthy(browser) <=> handled = {}))
    /\ [][closes' # closes =>
              (/\ phase = "cleanup"
               /\ handled = {}
               /\ result'.op = "cleanup"
               /\ Truthy(browser)
               /\ browser' = None
               /\ closes' = closes + 1)]_vars

\* the first of two cleanup calls is over, the second is still to come
TeardownByFirstCleanupWitness ==
    /\ phase = "cleanup"
    /\ batch = {1, 2}
    /\ Cardinality(handled) = 1
    /\ result.op = "cleanup"
    /\ result.out = Return(None)
    /\ browser = None
    /\ closes = batches

\* the rendering work of job j is run in this step
Rendered(j) == future[j] = Pending /\ future'[j] # Pending

\* C13: in every order of the setup, loop start, loop stop, retrieve and
\* cleanup calls, the rendering work of a retrieve is run only by a running
\* loop with the shared browser handle present: never against an absent
\* handle, never while the browser is launched or closed.
NoRenderOnTornDownBrowser ==
    [][\A j \in BrowserJobs :
          Rendered(j) => (result'.op = "run" /\ Truthy(browser))]_vars

\* C14: every retrieve a worker calls on a browser job eventually returns or
\* fails, whenever the driving thread stops the loop.
RetrieveReturns ==
    \A j \in BrowserJobs : (pc[j] # "idle") ~> (pc[j] = "idle")

\* the value a request carries under a header name, whatever the case the
\* name is written in; None when it carries no value under it
HeaderValue(headers, name) ==
    IF \E k \in DOMAIN headers : SameName(k, name)
    THEN headers[CHOOSE k \in DOMAIN headers : SameName(k, name)]
    ELSE None

\* the job has no custom header named as one of names, ignoring case
NoCustomHeader(names) ==
    Truthy(job.attrs["headers"]) =>
        \A c \in DOMAIN job.attrs["headers"].v : \A n \in names : ~SameName(c, n)

\* the conditional-request headers of the request just sent
ConditionalHeadersSent ==
    LET sent == request.headers
        before == result.before
        ignore_cached == Truthy(job.attrs["ignore_cached"])
    IN /\ HeaderValue(sent, "If-None-Match") =
              IF before.etag # None /\ ~ignore_cached THEN before.etag ELSE None
       /\ HeaderValue(sent, "If-Modified-Since") =
              IF ignore_cached THEN Str(formatdate(0))
              ELSE IF before.timestamp # None THEN Str(formatdate(before.timestamp.v))
              ELSE None
       /\ ignore_cached =>
              /\ HeaderValue(sent, "Cache-Control") = Str("max-age=172800")
              /\ HeaderValue(sent, "Expires") = Str(formatdate(result.world.now))

\* C15, as stated: the request of a url job with no custom header named
\* If-None-Match or If-Modified-Since carries If-None-Match equal to the
\* prior etag exactly when there is one and ignore_cached is not set, and
\* If-Modified-Since made from the prior timestamp exactly when there is one
\* and ignore_cached is not set; with ignore_cached set it carries no
\* If-None-Match value, If-Modified-Since at the epoch, and the cache-busting
\* headers.
ConditionalRequestHeadersStated ==
    (/\ result.op = "retrieve"
     /\ request.sent
     /\ NoCustomHeader({"If-None-Match", "If-Modified-Since"})) => ConditionalHeadersSent

\* C15, amended: the same of a url job with no custom header named
\* If-None-Match, If-Modified-Since, Cache-Control or Expires; a custom
\* Cache-Control or Expires header replaces the cache-busting one.
ConditionalRequestHeaders ==
    (/\ result.op = "retrieve"
     /\ request.sent
     /\ NoCustomHeader({"If-None-Match", "If-Modified-Since", "Cache-Control", "Expires"}))
        => ConditionalHeadersSent

\* a request made with ignore_cached set, an etag and a timestamp at hand
ConditionalRequestHeadersWitness ==
    /\ result.op = "retrieve"
    /\ request.sent
    /\ ~Truthy(job.attrs["headers"])
    /\ Truthy(job.attrs["ignore_cached"])
    /\ result.before.etag = Str("e1")
    /\ result.before.timestamp # None
    /\ request.headers["If-None-Match"] = None
    /\ request.headers["If-Modified-Since"] = Str("Thu, 01 Jan 1970 00:00:00 -0000")
    /\ request.headers["Cache-Control"] = Str("max-age=172800")

\* the method the code chooses for a job: POST with a body, else the declared
\* method, else GET
EffectiveMethod(j) ==
    IF j.attrs["data"] # None THEN Str("POST")
    ELSE IF j.attrs["method"] # None THEN j.attrs["method"]
    ELSE Str("GET")

\* a retrieve of a url job stores the effective method on the job and in its
\* serialized record, and issues its request with it
MethodStoredAndUsed ==
    LET effective == EffectiveMethod(job)
    IN /\ job'.attrs["method"] = effective
       /\ serialize(job')["method"] = effective
       /\ request'.sent => (request'.method = effective /\ request'.data = job.attrs["data"])

\* the Content-type of the request this step issues is the form-encoded one
FormEncoded ==
    HeaderValue(request'.headers, "Content-type") = Str("application/x-www-form-urlencoded")

\* this step is a retrieve of a url job
UrlRetrieved == result'.op = "retrieve" /\ job # NoJob /\ job.class.impl = "UrlJob"

\* C16, as stated: the request of a url job uses POST with a form-encoded
\* Content-type header whenever the job has data, whatever method it
\* declares; without data it uses the declared method, or GET if there is
\* none; after retrieve the method field of the job and of its serialized
\* record hold the method chosen.
HttpMethodSelectionStated ==
    [][UrlRetrieved =>
          /\ MethodStoredAndUsed
          /\ (request'.sent /\ job.attrs["data"] # None) => FormEncoded]_vars

\* C16, amended: the same, the Content-type header being the form-encoded
\* one whenever the job has data and no custom header named Content-type; a
\* custom Content-type header replaces it.
HttpMethodSelection ==
    [][UrlRetrieved =>
          /\ MethodStoredAndUsed
          /\ (request'.sent /\ job.attrs["data"] # None /\ NoCustomHeader({"Content-type"}))
                => FormEncoded]_vars

\* a request with a body was sent as POST by a job whose record now holds POST
HttpMethodSelectionWitness ==
    /\ result.op = "retrieve"
    /\ job # NoJob
    /\ job.class.impl = "UrlJob"
    /\ request.sent
    /\ job.attrs["data"] = Str("a")
    /\ request.data = Str("a")
    /\ request.method = Str("POST")
    /\ request.headers["Content-type"] = Str("application/x-www-form-urlencoded")
    /\ job.attrs["method"] = Str("POST")
    /\ serialize(job)["method"] = Str("POST")

\* C17: every browsing context a retrieve of a browser job opens is closed by
\* the time the call returns or fails, also when page creation, navigation or
\* content extraction fails, so that no context is open while no retrieve is
\* under way.
ContextsTornDown ==
    WorkersDone => contexts = 0

\* this step is a setup call that succeeded
SetupSucceeded == result'.op = "setup" /\ result'.out = Return(None)

\* C18: over every sequence of setup and cleanup calls on the browser jobs, a
\* browser is launched only when the shared handle is absent and closed only
\* when it is present: launches minus closes is 0 or 1, and the handle is
\* present exactly when it is 1; a setup that finds a browser launched
\* launches none, and a setup that succeeds with the handle absent, as after
\* a cleanup cleared it, launches a fresh one.
SharedBrowserStateMachine ==
    /\ [](/\ launches - closes \in {0, 1}
          /\ Truthy(browser) <=> launches - closes = 1)
    /\ [][/\ launches' # launches =>
               (/\ result'.op = "setup"
                /\ browser = None
                /\ launches' = launches + 1)
          /\ closes' # closes =>
               (/\ result'.op = "cleanup"
                /\ Truthy(browser)
                /\ browser' = None
                /\ closes' = closes + 1)
          /\ (result'.op = "setup" /\ Truthy(browser)) =>
               (launches' = launches /\ browser' = browser)
          /\ (SetupSucceeded /\ browser = None) =>
               (/\ launches' = launches + 1
                /\ browser' = Browser(launches')
                /\ Truthy(browser'))]_vars

\* a setup after a cleanup cleared the handle launched the second browser
SharedBrowserStateMachineWitness ==
    /\ result.op = "setup"
    /\ result.out = Return(None)
    /\ launches = 2
    /\ closes = 1
    /\ browser = Browser(2)

\* C19: with the kinds this module declares and no other, the required key of
\* each kind is a key no other kind declares, so no record without a 'kind'
\* key matches more than one kind, and auto-detection never ends with the
\* error of several kinds matching.
KindsNeverAmbiguous ==
    subclasses = ModuleSubclasses =>
        /\ \A k1, k2 \in DOMAIN subclasses :
              k1 # k2 => Range(subclasses[k1].required) \cap Declared(subclasses[k2]) = {}
        /\ \A d \in KeywordMaps : Cardinality(MatchingKinds(subclasses, d)) <= 1
        /\ (result.op = "unserialize" /\ "kind" \notin DOMAIN data) =>
              /\ Cardinality(MatchingKinds(subclasses, data)) <= 1
              /\ ~(result.out.tag = "raise" /\ result.out.msg = "Multiple kinds of jobs match")

\* a record with the required keys of two kinds was read, and matched neither
KindsNeverAmbiguousWitness ==
    /\ subclasses = ModuleSubclasses
    /\ result.op = "unserialize"
    /\ DOMAIN data = {"command", "url"}
    /\ MatchingKinds(subclasses, data) = {}
    /\ result.out.tag = "raise"
    /\ result.out.msg = "Kind is not specified, and no job matches"

====
